---- MODULE Spec2Model ----
(***************************************************************************)
(* EmailMCP: the provider resolver (providers/factory.py), the Gmail API   *)
(* and SMTP send backends with the in-process access-token cache           *)
(* (providers/gmail_api.py, gmail_api_production.py, smtp_client.py) and   *)
(* the multi-tenant OAuth / credential-store service                       *)
(* (services/multi_tenant_service.py).                                     *)
(*                                                                         *)
(* Python's None is the value None below; "" is the empty string, which is *)
(* falsy but not None.  Code between two awaits of one coroutine runs      *)
(* without interleaving, so each action is one such segment.               *)
(***************************************************************************)
EXTENDS Integers, Sequences, FiniteSets, TLC

VARIABLES
    settings,   \* core/config.py: the ambient Settings object
    resolved,   \* outcome of the last EmailProviderFactory.create_provider call
    available,  \* result of the last get_available_providers call
    provider,   \* one send-backend instance (its fields)
    now,        \* time.time(), in seconds
    issued,     \* number of access tokens the token endpoint has issued
    calls,      \* number of calls started on the provider instance
    task,       \* the coroutines running on the provider instance
    service,    \* MultiTenantEmailService: its secrets manager and Firestore client
    secrets,    \* the secret store: secret id -> stored JSON record
    profiles,   \* the Firestore users collection: user id -> document
    last,       \* the latest HTTP request and its outcome
    flows       \* the identity provider: user id -> redirect_uri of the pending authorization

tenantVars == <<service, secrets, profiles, last, flows>>

vars == <<settings, resolved, available, provider, now, issued, calls, task, tenantVars>>

None == "None"

\* bool(x) of an Optional[str]
Truthy(x) == x \notin {None, ""}

(***************************************************************************)
(* core/config.py.  gcp_project_id is the field of src/config.py:24 that   *)
(* the services read from settings (multi_tenant_service.py:52,            *)
(* firestore_service.py:19, gcp_secrets.py:17).                            *)
(***************************************************************************)
OptStr(v) == {None, v}

SettingsSpace ==
    [ environment              : {"development", "production"},
      gmail_client_id          : OptStr("cid"),
      gmail_client_secret      : OptStr("csecret"),
      gmail_refresh_token      : OptStr("rt"),
      smtp_host                : OptStr("smtp.example.com"),
      smtp_username            : OptStr("user"),
      smtp_password            : OptStr("pw"),
      preferred_email_provider : {"gmail_api", "smtp"},
      aws_region               : {"us-east-1"},
      aws_secrets_name         : {None, "", "emailmcp"},
      gcp_project_id           : OptStr("proj") ]

is_production(s) == s.environment = "production"

use_aws_secrets(s) == is_production(s) /\ s.aws_secrets_name # None

get_email_provider_priority(s) ==
    IF s.preferred_email_provider = "gmail_api"
    THEN <<"gmail_api", "smtp">>
    ELSE <<"smtp", "gmail_api">>

(***************************************************************************)
(* Values of the multi-tenant state (services/multi_tenant_service.py,     *)
(* firestore_service.py)                                                   *)
(***************************************************************************)
\* a user id is the sequence of its "/"-separated segments
Users == {<<"u1">>, <<"u2">>, <<"u1", "x">>}

\* no secret under an id (the store answers NotFound); a token that is None
\* is 0, the tokens the identity provider issues are 1, 2, ...
NoSecret ==
    [exists |-> FALSE, refresh_token |-> 0, access_token |-> 0,
     email_address |-> << >>, expires_at |-> 0]

\* no document for a user
NoProfile ==
    [exists |-> FALSE, email |-> << >>, gmail_connected |-> FALSE,
     total_emails_sent |-> 0]

\* no request yet.  had and had_profile are what the store and the users
\* collection held for the user when the request came in; steps is what the
\* handler did, in order; results and logged count the EmailResponse objects
\* constructed and the entries written to the email log.
NoRequest ==
    [op |-> "none", user |-> << >>, key |-> "none", to |-> << >>,
     provider |-> "none", at |-> 0, redirect_text |-> << >>, url |-> << >>, http |-> 0,
     outcome |-> "none", error |-> None,
     had |-> NoSecret, had_profile |-> NoProfile,
     steps |-> << >>, flow_redirect_uri |-> None, exchange_redirect_uri |-> None,
     exchanged |-> FALSE, response_refresh_token |-> 0, secret_data |-> NoSecret,
     gmail |-> "none", sent_token |-> 0, results |-> 0, status |-> "none", logged |-> 0]

\* the multi-tenant service takes no part in a run
TenantIdle ==
    /\ service = [secrets_manager |-> None, db |-> FALSE]
    /\ secrets = << >>
    /\ profiles = [u \in Users |-> NoProfile]
    /\ last = NoRequest
    /\ flows = [u \in Users |-> None]

(***************************************************************************)
(* is_configured() of the three backends, as the factory sees a freshly    *)
(* constructed instance                                                    *)
(***************************************************************************)
AWSIsConfigured(s) == Truthy(s.aws_region) /\ Truthy(s.aws_secrets_name)

GmailIsConfigured(s) ==
    Truthy(s.gmail_client_id) /\ Truthy(s.gmail_client_secret)
        /\ Truthy(s.gmail_refresh_token)

GmailProdIsConfigured(s) ==
    IF use_aws_secrets(s) THEN AWSIsConfigured(s) ELSE GmailIsConfigured(s)

SmtpIsConfigured(s) ==
    Truthy(s.smtp_host) /\ Truthy(s.smtp_username) /\ Truthy(s.smtp_password)

\* the class the factory instantiates for "gmail_api"
GmailBackend(s) ==
    IF is_production(s) THEN "GmailAPIProductionProvider" ELSE "GmailAPIProvider"

GmailBackendIsConfigured(s) ==
    IF is_production(s) THEN GmailProdIsConfigured(s) ELSE GmailIsConfigured(s)

(***************************************************************************)
(* providers/factory.py.  A resolution yields the backend returned or the  *)
(* ValueError raised, and the log records emitted on the way.              *)
(***************************************************************************)
Returned(b, lg) == [raised |-> FALSE, backend |-> b, error |-> None, logs |-> lg]
Raised(e, lg)   == [raised |-> TRUE, backend |-> None, error |-> e, logs |-> lg]

\* mutant: an unconfigured Gmail API request raises instead of falling back
GmailUnconfiguredRaises(s) ==
    Raised("Gmail API provider not configured",
           << <<"error", "Gmail API not configured">> >>)

SmtpFallbackOnUnconfiguredGmail(s) ==
    Returned("SmtpClient",
             << <<"warning", "Gmail API not configured, falling back to SMTP">> >>)

\* mutant: an unconfigured SMTP request returns the client instead of raising
SpecificProviderSmtpNeverRaises(s, provider_type) ==
    IF provider_type = "gmail_api"
    THEN IF GmailBackendIsConfigured(s)
         THEN Returned(GmailBackend(s), << <<"info", "Created Gmail API provider">> >>)
         ELSE SmtpFallbackOnUnconfiguredGmail(s)
    ELSE IF provider_type = "smtp"
    THEN Returned("SmtpClient", << <<"info", "Created SMTP provider">> >>)
    ELSE Raised("Unknown provider type", << <<"error", "Unknown provider type">> >>)

_create_specific_provider(s, provider_type) ==
    IF provider_type = "gmail_api"
    THEN IF GmailBackendIsConfigured(s)
         THEN Returned(GmailBackend(s), << <<"info", "Created Gmail API provider">> >>)
         ELSE SmtpFallbackOnUnconfiguredGmail(s)
    ELSE IF provider_type = "smtp"
    THEN IF SmtpIsConfigured(s)
         THEN Returned("SmtpClient", << <<"info", "Created SMTP provider">> >>)
         ELSE Raised("SMTP provider not configured",
                     << <<"error", "SMTP not configured">> >>)
    ELSE Raised("Unknown provider type", << <<"error", "Unknown provider type">> >>)

RECURSIVE BestFrom(_, _, _)
\* the for loop of _create_best_available_provider over priority[i..]
BestFrom(s, priority, i) ==
    IF i > Len(priority)
    THEN Returned("SmtpClient",
                  << <<"warning", "No email providers configured, returning basic SMTP client">> >>)
    ELSE LET r == _create_specific_provider(s, priority[i])
         IN  IF ~r.raised
             THEN Returned(r.backend, r.logs \o << <<"info", "Selected provider">> >>)
             ELSE LET rest == BestFrom(s, priority, i + 1)
                  IN  [rest EXCEPT !.logs =
                          r.logs \o << <<"warning", "not available, trying next option">> >>
                                 \o rest.logs]

\* mutant: the configured preference is ignored
BestIgnoringPreference(s) == BestFrom(s, <<"gmail_api", "smtp">>, 1)

_create_best_available_provider(s) ==
    BestFrom(s, get_email_provider_priority(s), 1)

create_provider(s, provider_type) ==
    IF Truthy(provider_type)
    THEN _create_specific_provider(s, provider_type)
    ELSE _create_best_available_provider(s)

get_available_providers(s) ==
    (IF GmailBackendIsConfigured(s) THEN <<"gmail_api">> ELSE << >>)
        \o (IF SmtpIsConfigured(s) THEN <<"smtp">> ELSE << >>)

\* provider_type values a caller passes to create_provider
RequestedProviders == {None, "gmail_api", "smtp", "outlook"}

NotCalled == [called |-> FALSE, result |-> Returned(None, << >>)]

\* create_provider(p); resolved[p] keeps the outcome of the last call with p
Resolve(p) ==
    /\ resolved' = [resolved EXCEPT
                       ![p] = [called |-> TRUE, result |-> create_provider(settings, p)]]
    /\ UNCHANGED <<settings, available, provider, now, issued, calls, task, tenantVars>>

ListAvailable ==
    /\ available' = [called |-> TRUE, list |-> get_available_providers(settings)]
    /\ UNCHANGED <<settings, resolved, provider, now, issued, calls, task, tenantVars>>

InitFactory ==
    /\ settings \in {s \in SettingsSpace : s.gcp_project_id = None}
    /\ resolved = [p \in RequestedProviders |-> NotCalled]
    /\ available = [called |-> FALSE, list |-> << >>]
    /\ provider = None
    /\ now = 0
    /\ issued = 0
    /\ calls = 0
    /\ task = None
    /\ TenantIdle

NextFactory == (\E p \in RequestedProviders : Resolve(p)) \/ ListAvailable

SpecFactory == InitFactory /\ [][NextFactory]_vars

(***************************************************************************)
(* Provider resolution                                                     *)
(***************************************************************************)
Range(q) == {q[i] : i \in 1..Len(q)}

HasLog(r, level) == \E i \in 1..Len(r.logs) : r.logs[i][1] = level

\* C7: with SMTP unconfigured, an explicit "smtp" request raises the
\* not-configured ValueError, and an auto request (provider_type None)
\* returns a backend without raising, whatever the priority order and the
\* Gmail configuration.
C7_SmtpExplicitRaisesAutoDoesNot ==
    ~SmtpIsConfigured(settings) =>
        /\ resolved["smtp"].called =>
              /\ resolved["smtp"].result.raised
              /\ resolved["smtp"].result.error = "SMTP provider not configured"
        /\ resolved[None].called =>
              /\ ~resolved[None].result.raised
              /\ resolved[None].result.backend
                    \in {"SmtpClient", "GmailAPIProvider", "GmailAPIProductionProvider"}

\* both requests were made under an SMTP-first priority with SMTP unconfigured
C7_Witness ==
    /\ ~SmtpIsConfigured(settings)
    /\ settings.preferred_email_provider = "smtp"
    /\ GmailBackendIsConfigured(settings)
    /\ resolved["smtp"].called /\ resolved["smtp"].result.raised
    /\ resolved[None].called /\ resolved[None].result.backend = GmailBackend(settings)

\* C8: an explicit "gmail_api" request with the Gmail API backend
\* unconfigured returns the SMTP backend, logs a warning and does not raise,
\* whether or not SMTP is configured; with the Gmail API backend configured
\* it returns the Gmail API backend.
C8_GmailExplicitFallsBackToSmtp ==
    resolved["gmail_api"].called =>
        LET r == resolved["gmail_api"].result
        IN  /\ ~r.raised
            /\ ~GmailBackendIsConfigured(settings) =>
                  r.backend = "SmtpClient" /\ HasLog(r, "warning")
            /\ GmailBackendIsConfigured(settings) =>
                  r.backend = GmailBackend(settings)

\* the fallback happened with SMTP itself unconfigured
C8_Witness ==
    /\ resolved["gmail_api"].called
    /\ ~GmailBackendIsConfigured(settings)
    /\ ~SmtpIsConfigured(settings)
    /\ resolved["gmail_api"].result.backend = "SmtpClient"

BackendOf(name) == IF name = "gmail_api" THEN GmailBackend(settings) ELSE "SmtpClient"

\* the first entry of the priority list that the list of available providers holds
FirstAvailable(priority, avail) ==
    LET hits == {i \in 1..Len(priority) : priority[i] \in Range(avail)}
    IN  IF hits = {} THEN None
        ELSE priority[CHOOSE i \in hits : \A j \in hits : i <= j]

\* C9: auto resolution returns the backend of the first provider of the
\* priority list that get_available_providers() reports, and the SMTP backend
\* when get_available_providers() is empty; get_available_providers() holds a
\* provider exactly when that provider's is_configured() is true.
C9_AutoReturnsFirstAvailable ==
    (resolved[None].called /\ available.called) =>
        LET r == resolved[None].result
            priority == IF settings.preferred_email_provider = "gmail_api"
                        THEN <<"gmail_api", "smtp">> ELSE <<"smtp", "gmail_api">>
            first == FirstAvailable(priority, available.list)
        IN  /\ ~r.raised
            /\ first # None => r.backend = BackendOf(first)
            /\ first = None => r.backend = "SmtpClient"
            /\ "gmail_api" \in Range(available.list) <=>
                  (IF is_production(settings)
                   THEN GmailProdIsConfigured(settings) ELSE GmailIsConfigured(settings))
            /\ "smtp" \in Range(available.list) <=> SmtpIsConfigured(settings)
            /\ Range(available.list) \subseteq {"gmail_api", "smtp"}

\* SMTP is preferred but only the Gmail API backend is configured
C9_Witness ==
    /\ resolved[None].called /\ available.called
    /\ settings.preferred_email_provider = "smtp"
    /\ available.list = <<"gmail_api">>
    /\ resolved[None].result.backend = GmailBackend(settings)

(***************************************************************************)
(* The send backends: providers/gmail_api.py, gmail_api_production.py,     *)
(* smtp_client.py.                                                         *)
(*                                                                         *)
(* Access tokens are numbered 1, 2, ... in the order the token endpoint    *)
(* issues them; 0 stands for None, for a token and for an expiry alike     *)
(* (gmail_api.py:70 reads both only through their truth value).  The clock *)
(* starts at Epoch, so a computed expiry is never 0.                       *)
(***************************************************************************)
\* the coroutine slots
Tasks == {1, 2}

Epoch == 1000
TickStep == 30
MaxTicks == 1
MaxCalls == 3
MaxIssued == 2

\* gmail_api.py:94
DefaultExpiresIn == 3600
TokenBuffer == 60

\* "expires_in" of a token response; 0 stands for a response without the key
ExpiresInValues == {0, 30, 90}

HttpErrorStatuses == {400, 401}

\* str(e) of an exception raised by the HTTP or SMTP client; << >> is ""
ExceptionTexts == {<<"Network error">>, << >>}

Backends == {"GmailAPIProvider", "GmailAPIProductionProvider", "SmtpClient"}

\* __init__ of the three backends
NewProvider(kind, s) ==
    [ kind                |-> kind,
      client_id           |-> IF kind = "GmailAPIProvider" THEN s.gmail_client_id ELSE None,
      client_secret       |-> IF kind = "GmailAPIProvider" THEN s.gmail_client_secret ELSE None,
      refresh_token       |-> IF kind = "GmailAPIProvider" THEN s.gmail_refresh_token ELSE None,
      _access_token       |-> 0,
      _token_expires_at   |-> 0,
      _credentials_loaded |-> FALSE ]

IdleTask ==
    [ pc |-> "idle", op |-> "none", callTime |-> 0,
      cachedToken |-> 0, cachedExp |-> 0, hadRefreshToken |-> FALSE,
      priorToken |-> 0, priorExp |-> 0,
      nRefresh |-> 0, refreshStatus |-> 0, newToken |-> 0,
      token |-> 0, tokenExp |-> 0,
      nSend |-> 0, sentWith |-> 0, sendStatus |-> 0,
      outcome |-> "none", status |-> "none", error |-> << >>,
      overlapped |-> FALSE, steps |-> << >> ]

\* a call that starts now on provider p
NewCall(op, p, t) ==
    [ IdleTask EXCEPT !.pc = "running", !.op = op, !.callTime = now,
                      !.cachedToken = p._access_token,
                      !.cachedExp = p._token_expires_at,
                      !.hadRefreshToken = Truthy(p.refresh_token) ]

\* t's record becomes rec.  A finished call's record is its result as handed
\* to the caller: it is dropped once another coroutine runs, and the record of
\* a call in flight notes that another coroutine ran meanwhile (overlapped is
\* bookkeeping, not code).
SetTask(t, rec) ==
    task' = [u \in Tasks |->
                IF u = t THEN rec
                ELSE IF task[u].pc \in {"idle", "done"} THEN IdleTask
                ELSE [task[u] EXCEPT !.overlapped = TRUE]]

\* a new call takes the first free coroutine slot (the slots are
\* interchangeable)
FreeSlot(t) ==
    /\ task[t].pc \in {"idle", "done"}
    /\ \A u \in Tasks : task[u].pc \in {"idle", "done"} => ~(u < t)

\* mutant: the cached token is never reused
TokenNeverValid(p, time) == FALSE

\* gmail_api.py:70
TokenIsValid(p, time) ==
    p._access_token # 0 /\ p._token_expires_at # 0 /\ time < p._token_expires_at

\* what the call has done so far, in order: "refresh" is the POST to the
\* token endpoint, "token" the return of _get_valid_access_token, "send" the
\* POST of the message, "answer" its response or exception, and "log" the
\* log line EmailService.send_email writes once provider.send has returned
\* or raised (services/email_service.py:28-37)
Step(rec, name) == [rec EXCEPT !.steps = @ \o <<name>>]

\* EmailResponse(status="failed", error=...) returned by send
SendFailed(rec, err) ==
    [Step(rec, "log") EXCEPT !.pc = "done", !.outcome = "returned",
                             !.status = "failed", !.error = err]

\* an exception leaving the call
CallRaised(rec, err) ==
    [(IF rec.op = "send" THEN Step(rec, "log") ELSE rec)
        EXCEPT !.pc = "done", !.outcome = "raised", !.error = err]

\* mutant: send goes on to post the message after the token could not be obtained
FailsButSends(rec, err) ==
    IF rec.op = "send"
    THEN [Step(rec, "send") EXCEPT !.pc = "sending", !.nSend = @ + 1]
    ELSE CallRaised(rec, err)

\* an exception inside send's try block (gmail_api.py:59-65), or leaving
\* _get_valid_access_token when that is what was called
Fails(rec, err) ==
    IF rec.op = "send" THEN SendFailed(rec, err) ELSE CallRaised(rec, err)

\* gmail_api.py:29-41: build the message and post it with the token
BuildAndPost(rec, tok, msgOk) ==
    IF msgOk
    THEN [Step(rec, "send") EXCEPT !.pc = "sending", !.nSend = @ + 1, !.sentWith = tok]
    ELSE SendFailed(rec, <<"HeaderParseError">>)

\* _get_valid_access_token returned tok; send goes on, a direct call ends
GotToken(rec, tok, exp, msgOk) ==
    LET r == [Step(rec, "token") EXCEPT !.token = tok, !.tokenExp = exp]
    IN  IF rec.op = "send"
        THEN BuildAndPost(r, tok, msgOk)
        ELSE [r EXCEPT !.pc = "done", !.outcome = "returned"]

\* gmail_api.py:79-88: the POST to the token endpoint goes out
PostRefresh(rec) == [Step(rec, "refresh") EXCEPT !.pc = "refreshing", !.nRefresh = @ + 1]

\* gmail_api_production.py:23-45, the environment-variable branch
LoadedFromSettings(p, s) ==
    [p EXCEPT !.client_id = s.gmail_client_id,
              !.client_secret = s.gmail_client_secret,
              !.refresh_token = s.gmail_refresh_token,
              !._credentials_loaded = TRUE]

\* gmail_api_production.py:29-35, the secret read from AWS
LoadedFromAWS(p, rt) ==
    [p EXCEPT !.client_id = "aws-cid", !.client_secret = "aws-csecret",
              !.refresh_token = rt, !._credentials_loaded = TRUE]

\* the outcomes of _load_credentials: <<raised, provider afterwards>>
LoadCredentialsOutcomes(p, s) ==
    IF p.kind # "GmailAPIProductionProvider" \/ p._credentials_loaded
    THEN {<<FALSE, p>>}
    ELSE IF use_aws_secrets(s)
    THEN {<<TRUE, p>>} \cup {<<FALSE, LoadedFromAWS(p, rt)>> : rt \in {"aws-rt"}}
    ELSE {<<FALSE, LoadedFromSettings(p, s)>>}

\* _get_valid_access_token up to its first await (gmail_api.py:67-88, with
\* gmail_api_production.py:52-57 in front of the POST)
GetValidAccessToken(t, rec, p, msgOk) ==
    IF TokenIsValid(p, now)
    THEN /\ SetTask(t, GotToken(rec, p._access_token, p._token_expires_at, msgOk))
         /\ provider' = p
    ELSE \E o \in LoadCredentialsOutcomes(p, settings) :
            IF o[1]
            THEN /\ SetTask(t, Fails(rec, <<"ClientError">>))
                 /\ provider' = p
            ELSE /\ SetTask(t, PostRefresh(rec))
                 /\ provider' = o[2]

\* the cache of the instance that served the request before; none for a
\* call made on an instance directly
NoPrior == [_access_token |-> 0, _token_expires_at |-> 0]

\* send(email) on instance p up to the first await on the network; prior is
\* bookkeeping, not code
SendOn(t, p, prior) ==
    \E msgOk \in BOOLEAN :
    \E o \in (IF p.kind = "GmailAPIProductionProvider"
              THEN LoadCredentialsOutcomes(p, settings)
              ELSE {<<FALSE, p>>}) :
       IF o[1]
       THEN \* gmail_api_production.py:49 is outside any try block
            /\ SetTask(t, CallRaised([NewCall("send", p, t) EXCEPT
                                         !.priorToken = prior._access_token,
                                         !.priorExp = prior._token_expires_at],
                                     <<"ClientError">>))
            /\ provider' = p
       ELSE GetValidAccessToken(t,
                                [NewCall("send", o[2], t) EXCEPT
                                    !.priorToken = prior._access_token,
                                    !.priorExp = prior._token_expires_at],
                                o[2], msgOk)

\* GmailAPIProvider.send / GmailAPIProductionProvider.send up to the first
\* await on the network
StartSend(t) ==
    /\ provider.kind # "SmtpClient"
    /\ FreeSlot(t)
    /\ calls < MaxCalls
    /\ calls' = calls + 1
    /\ SendOn(t, provider, NoPrior)
    /\ UNCHANGED <<settings, resolved, available, now, issued, tenantVars>>

\* a direct call of _get_valid_access_token
StartGetToken(t) ==
    /\ provider.kind # "SmtpClient"
    /\ FreeSlot(t)
    /\ calls < MaxCalls
    /\ calls' = calls + 1
    /\ GetValidAccessToken(t, NewCall("token", provider, t), provider, TRUE)
    /\ UNCHANGED <<settings, resolved, available, now, issued, tenantVars>>

\* gmail_api.py:94
ExpiryFor(time, expires_in) ==
    time + (IF expires_in = 0 THEN DefaultExpiresIn ELSE expires_in) - TokenBuffer

\* mutant: the refreshed token is returned without being cached
RefreshNotCached(p, tok, exp) == p

\* mutant: the token of a response is cached, the expiry is left as it was
TokenCachedWithoutExpiry(p, tok, exp) == [p EXCEPT !._access_token = tok]

\* mutant: a response that finds a token in the cache does not replace it
CacheFirstWriteWins(p, tok, exp) ==
    IF p._access_token # 0 THEN p
    ELSE [p EXCEPT !._access_token = tok, !._token_expires_at = exp]

\* gmail_api.py:92-94
CacheToken(p, tok, exp) == [p EXCEPT !._access_token = tok, !._token_expires_at = exp]

\* the token endpoint answers 200 (gmail_api.py:90-97)
RefreshAccepted(t) ==
    /\ task[t].pc = "refreshing"
    /\ Truthy(provider.refresh_token)
    /\ issued < MaxIssued
    /\ issued' = issued + 1
    /\ \E expires_in \in ExpiresInValues, msgOk \in BOOLEAN :
          LET tok == issued + 1
              exp == ExpiryFor(now, expires_in)
          IN  /\ provider' = CacheToken(provider, tok, exp)
              /\ SetTask(t, GotToken([task[t] EXCEPT !.refreshStatus = 200,
                                                      !.newToken = tok],
                                     tok, exp, msgOk))
    /\ UNCHANGED <<settings, resolved, available, now, calls, tenantVars>>

\* mutant: a rejected refresh drops the cached token and the refresh token
RejectionClearsCredentials(p) ==
    [p EXCEPT !._access_token = 0, !._token_expires_at = 0, !.refresh_token = None]

\* the provider after a rejected refresh: gmail_api.py:98-104 logs and
\* raises, assigning nothing
AfterRejection(p) == p

\* the token endpoint answers non-200 (gmail_api.py:98-104)
RefreshRejected(t) ==
    /\ task[t].pc = "refreshing"
    /\ \E code \in HttpErrorStatuses :
          SetTask(t, Fails([task[t] EXCEPT !.refreshStatus = code],
                           <<"Token refresh failed: ", code>>))
    /\ provider' = AfterRejection(provider)
    /\ UNCHANGED <<settings, resolved, available, now, issued, calls, tenantVars>>

\* the POST to the token endpoint raises (gmail_api.py:102-104)
RefreshException(t) ==
    /\ task[t].pc = "refreshing"
    /\ \E text \in ExceptionTexts : SetTask(t, Fails(task[t], text))
    /\ UNCHANGED <<settings, resolved, available, provider, now, issued, calls, tenantVars>>

\* gmail_api.py:43-57: the Gmail API answers the send call
SendAnswered(t) ==
    /\ task[t].pc = "sending"
    /\ \E code \in {200} \cup HttpErrorStatuses :
          SetTask(t, IF code = 200
                     THEN [Step(Step(task[t], "answer"), "log")
                              EXCEPT !.pc = "done", !.sendStatus = 200,
                                     !.outcome = "returned", !.status = "success"]
                     ELSE SendFailed([Step(task[t], "answer") EXCEPT !.sendStatus = code],
                                     <<"Gmail API error: ", code>>))
    /\ UNCHANGED <<settings, resolved, available, provider, now, issued, calls, tenantVars>>

\* gmail_api.py:59-65: the send call raises
SendException(t) ==
    /\ task[t].pc = "sending"
    /\ \E text \in ExceptionTexts : SetTask(t, SendFailed(Step(task[t], "answer"), text))
    /\ UNCHANGED <<settings, resolved, available, provider, now, issued, calls, tenantVars>>

\* SmtpClient.send on instance p up to the await of aiosmtplib.send
SmtpSendOn(t, p) ==
    \E msgOk \in BOOLEAN :
       SetTask(t, IF msgOk
                  THEN [Step(NewCall("send", p, t), "send")
                           EXCEPT !.pc = "smtp", !.nSend = 1]
                  ELSE SendFailed(NewCall("send", p, t), <<"HeaderParseError">>))

\* smtp_client.py:12-35: SmtpClient.send up to the await of aiosmtplib.send
StartSmtpSend(t) ==
    /\ provider.kind = "SmtpClient"
    /\ FreeSlot(t)
    /\ calls < MaxCalls
    /\ calls' = calls + 1
    /\ SmtpSendOn(t, provider)
    /\ UNCHANGED <<settings, resolved, available, provider, now, issued, tenantVars>>

\* smtp_client.py:37-50: aiosmtplib.send returns or raises
SmtpDone(t) ==
    /\ task[t].pc = "smtp"
    /\ \/ SetTask(t, [Step(Step(task[t], "answer"), "log")
                          EXCEPT !.pc = "done", !.outcome = "returned",
                                 !.status = "success"])
       \/ \E text \in ExceptionTexts : SetTask(t, SendFailed(Step(task[t], "answer"), text))
    /\ UNCHANGED <<settings, resolved, available, provider, now, issued, calls, tenantVars>>

\* time passes
Tick ==
    /\ now + TickStep <= Epoch + MaxTicks * TickStep
    /\ now' = now + TickStep
    /\ UNCHANGED <<settings, resolved, available, provider, issued, calls, task, tenantVars>>

\* the settings a backend instance is constructed under; the fields a
\* backend never reads are held fixed
ProviderSettings(kind) ==
    {s \in SettingsSpace :
        /\ s.gmail_client_id = "cid" /\ s.gmail_client_secret = "csecret"
        /\ s.smtp_host = None /\ s.smtp_username = None /\ s.smtp_password = None
        /\ s.preferred_email_provider = "gmail_api"
        /\ s.aws_secrets_name # "" /\ s.gcp_project_id = None
        /\ kind = "SmtpClient" => s.gmail_refresh_token = "rt"
        /\ kind # "GmailAPIProductionProvider" =>
              s.environment = "development" /\ s.aws_secrets_name = None
        /\ s.environment = "development" => s.aws_secrets_name = None}

InitProvider ==
    /\ \E kind \in Backends :
          /\ settings \in ProviderSettings(kind)
          /\ provider = NewProvider(kind, settings)
    /\ resolved = [p \in RequestedProviders |-> NotCalled]
    /\ available = [called |-> FALSE, list |-> << >>]
    /\ now = Epoch
    /\ issued = 0
    /\ calls = 0
    /\ task = [t \in Tasks |-> IdleTask]
    /\ TenantIdle

NextProvider ==
    \/ \E t \in Tasks :
          \/ StartSend(t) \/ StartGetToken(t)
          \/ RefreshAccepted(t) \/ RefreshRejected(t) \/ RefreshException(t)
          \/ SendAnswered(t) \/ SendException(t)
          \/ StartSmtpSend(t) \/ SmtpDone(t)
    \/ Tick

SpecProvider == InitProvider /\ [][NextProvider]_vars

(***************************************************************************)
(* services/multi_tenant_service.py with gcp_secrets.py, aws_secrets.py    *)
(* and firestore_service.py.  No handler below awaits anything that        *)
(* suspends (requests, the Google clients and boto3 are blocking calls), so *)
(* each handler is one action.                                              *)
(***************************************************************************)
MaxExchanges == 2

\* the number of HTTP requests of a run, counted in calls
MaxRequests == 3

\* the number of times the clock advances between requests
MaxTenantTicks == 1

\* "expires_in" of a code exchange; 0 stands for a response without the key
ExchangeExpiresIn == {0, 20}

\* what a request carries in its Authorization header, seen against
\* settings.mcp_api_key
ApiKeys == {"missing", "wrong", "right"}

\* mutant: the dependency lets every request through
AnyKeyAccepted(key) == TRUE

\* HTTPBearer() refuses a request without the header, verify_api_key one
\* whose key differs from settings.mcp_api_key (core/security.py:5-16)
verify_api_key(key) == key = "right"

\* the status of the refusal: 403 from verify_api_key; HTTPBearer answers a
\* missing header with 403 or 401, depending on the FastAPI release installed
RejectionStatuses(key) == IF key = "missing" THEN {401, 403} ELSE {403}

\* the redirect_uri an authorization URL is built with (OAuthRequest.redirect_uri)
RedirectUris == {"https://app.example/callback", "postmessage"}

\* the redirect_uri query parameter of a callback; None when the request
\* carries only code and state
CallbackRedirectUris == {None} \cup RedirectUris

\* a user id that can stand in the path of /users/{user_id}/...
PathUsers == {u \in Users : Len(u) = 1}

\* the attributes hasattr() finds on each secrets manager
ManagerAttrs(m) ==
    IF m = "GCP"
    THEN {"client", "get_secret", "create_or_update_secret", "delete_secret",
          "get_email_credentials", "get_user_credentials",
          "store_user_credentials", "delete_user_credentials", "is_configured"}
    ELSE IF m = "AWS"
    THEN {"client", "get_email_credentials", "update_refresh_token", "is_configured"}
    ELSE {}

\* multi_tenant_service.py:48-67
_init_secrets_manager(s) ==
    IF is_production(s)
    THEN IF Truthy(s.gcp_project_id) THEN "GCP"
         ELSE IF Truthy(s.aws_secrets_name) THEN "AWS"
         ELSE None
    ELSE None

\* f"users/{user_id}/gmail", split at "/"
SecretName(user_id) == <<"users">> \o user_id \o <<"gmail">>

\* gcp_secrets.py:173/191: f"emailmcp-user-{user_id}-gmail"
GcpUserSecretId(user_id) == <<"emailmcp-user-", user_id, "-gmail">>

\* the record under a secret id
Lookup(store, id) == IF id \in DOMAIN store THEN store[id] ELSE NoSecret

\* store with id mapped to rec
Put(store, id, rec) ==
    [k \in DOMAIN store \cup {id} |-> IF k = id THEN rec ELSE store[k]]

\* _store_user_secret (multi_tenant_service.py:181-202) with
\* store_user_credentials and create_or_update_secret (gcp_secrets.py:69-124,
\* 176-192): the store after the write
_store_user_secret(m, store, secret_name, secret_data) ==
    IF m # None
    THEN IF "store_user_credentials" \in ManagerAttrs(m)
         THEN Put(store, GcpUserSecretId(secret_name[2]), secret_data)
         ELSE IF "create_or_update_secret" \in ManagerAttrs(m)
         THEN Put(store, <<"emailmcp">> \o secret_name, secret_data)
         ELSE store
    ELSE store

\* _get_user_secret (multi_tenant_service.py:212-229); the second branch
\* reads through get_email_credentials (aws_secrets.py:23-40), whose key is
\* f"{secrets_name}/{provider}"
_get_user_secret(m, store, secret_name) ==
    IF m # None
    THEN IF "get_user_credentials" \in ManagerAttrs(m)
         THEN Lookup(store, GcpUserSecretId(secret_name[2]))
         ELSE IF "get_secret" \in ManagerAttrs(m)
         THEN Lookup(store, <<settings.aws_secrets_name>> \o secret_name)
         ELSE NoSecret
    ELSE NoSecret

\* the document after create_user_profile (firestore_service.py:33-85) merged
\* the profile data of multi_tenant_service.py:156-169 into it
CreatedProfile(doc, email_address) ==
    [exists |-> TRUE, email |-> email_address,
     gmail_connected |-> TRUE, total_emails_sent |-> 0]

\* get_user_profile(user_id) (multi_tenant_service.py:342-379)
get_user_profile(user_id) ==
    IF service.db /\ profiles[user_id].exists
    THEN [user_id |-> user_id, email_address |-> profiles[user_id].email,
          gmail_connected |-> profiles[user_id].gmail_connected,
          total_emails_sent |-> profiles[user_id].total_emails_sent]
    ELSE [user_id |-> user_id, email_address |-> << >>,
          gmail_connected |-> FALSE, total_emails_sent |-> 0]

\* a request for user u as it enters its handler
Request(op, u, key) ==
    [NoRequest EXCEPT !.op = op, !.user = u, !.key = key, !.at = now,
                      !.had = _get_user_secret(service.secrets_manager, secrets,
                                               SecretName(u)),
                      !.had_profile = profiles[u]]

\* the answers of a route whose dependency verify_api_key refuses the
\* request: the handler never runs
Rejected(op, u, key) ==
    {[NoRequest EXCEPT !.op = op, !.user = u, !.key = key,
                       !.http = code, !.outcome = "rejected",
                       !.error = "Invalid or missing API key"] :
        code \in RejectionStatuses(key)}

\* the handler's except branch: HTTPException(status_code, detail=str(e))
Failed(req, status_code, e) ==
    [req EXCEPT !.http = status_code, !.outcome = "raised", !.error = e]

\* the handler returns
Answered(req) == [req EXCEPT !.http = 200, !.outcome = "returned"]

\* the "to" list of a send request's body
Recipients == {<< >>, <<"rcpt@example.com">>}

\* min_length of the field "to": Field(min_length=1) in EmailRequest
\* (schemas/requests.py:10-13), a plain List[EmailStr] in
\* MultiTenantEmailRequest (schemas/requests.py:53)
ToMinLength(model) == IF model = "EmailRequest" THEN 1 ELSE 0

\* the body passes the validation of its model
Validates(model, to) == Len(to) >= ToMinLength(model)

\* FastAPI answers a body that fails validation with 422; the handler and
\* the dependencies that take the body never run
Invalid(op, u, key, to) ==
    [NoRequest EXCEPT !.op = op, !.user = u, !.key = key, !.to = to,
                      !.http = 422, !.outcome = "invalid",
                      !.error = "RequestValidationError"]

\* a request comes in
Arrives ==
    /\ calls < MaxRequests
    /\ calls' = calls + 1

(***************************************************************************)
(* Text as urlencode sees it: a sequence of tokens, each a run of           *)
(* characters quote_plus leaves alone or one character it escapes.          *)
(***************************************************************************)
\* the characters of the inputs that quote_plus escapes
EscapedChars == {" ", "/", ":", "+", "%", "&", "=", "?"}

\* mutant: the value goes into the query as it is
QuoteNothing(tok) == tok

\* urllib.parse.quote_plus on one token
quote_plus(tok) ==
    CASE tok = " " -> "+"
      [] tok = "/" -> "%2F"
      [] tok = ":" -> "%3A"
      [] tok = "+" -> "%2B"
      [] tok = "%" -> "%25"
      [] tok = "&" -> "%26"
      [] tok = "=" -> "%3D"
      [] tok = "?" -> "%3F"
      [] OTHER -> tok

\* urllib.parse.unquote_plus on one token of a query string
unquote_plus(tok) ==
    CASE tok = "+" -> " "
      [] tok = "%2F" -> "/"
      [] tok = "%3A" -> ":"
      [] tok = "%2B" -> "+"
      [] tok = "%25" -> "%"
      [] tok = "%26" -> "&"
      [] tok = "%3D" -> "="
      [] tok = "%3F" -> "?"
      [] OTHER -> tok

QuoteText(text) == [i \in 1..Len(text) |-> quote_plus(text[i])]

UnquoteText(text) == [i \in 1..Len(text) |-> unquote_plus(text[i])]

RECURSIVE JoinWith(_, _)
\* sep.join(parts)
JoinWith(parts, sep) ==
    IF Len(parts) = 0 THEN << >>
    ELSE IF Len(parts) = 1 THEN parts[1]
    ELSE parts[1] \o <<sep>> \o JoinWith(Tail(parts), sep)

RECURSIVE SplitAt(_, _)
\* text.split(sep)
SplitAt(text, sep) ==
    IF \A i \in 1..Len(text) : text[i] # sep
    THEN <<text>>
    ELSE LET i == CHOOSE k \in 1..Len(text) :
                      text[k] = sep /\ \A j \in 1..(k - 1) : text[j] # sep
         IN  <<SubSeq(text, 1, i - 1)>> \o SplitAt(SubSeq(text, i + 1, Len(text)), sep)

\* urllib.parse.urlencode(params) for a list of (key, value) pairs
urlencode(params) ==
    JoinWith([i \in 1..Len(params) |->
                 <<params[i][1], "=">> \o QuoteText(params[i][2])], "&")

\* urllib.parse.parse_qsl on a query string: the (key, value) pairs
parse_qsl(query) ==
    LET pairs == SplitAt(query, "&")
    IN  [i \in 1..Len(pairs) |->
            LET kv == SplitAt(pairs[i], "=")
            IN  <<UnquoteText(kv[1]),
                  UnquoteText(JoinWith(Tail(kv), "="))>>]

\* GMAIL_OAUTH_SCOPES (multi_tenant_service.py:29-34)
GMAIL_OAUTH_SCOPES ==
    << <<"openid">>,
       <<"https", ":", "/", "/", "mail.google.com", "/">>,
       <<"https", ":", "/", "/", "www.googleapis.com", "/", "auth", "/", "userinfo.email">>,
       <<"https", ":", "/", "/", "www.googleapis.com", "/", "auth", "/", "userinfo.profile">> >>

\* multi_tenant_service.py:90
AuthorizationEndpoint == "https://accounts.google.com/o/oauth2/v2/auth"

\* generate_oauth_url (multi_tenant_service.py:69-94)
generate_oauth_url(user_id, redirect_uri) ==
    <<AuthorizationEndpoint, "?">> \o
    urlencode(<< <<"client_id", <<settings.gmail_client_id>> >>,
                 <<"redirect_uri", redirect_uri>>,
                 <<"response_type", <<"code">> >>,
                 <<"scope", JoinWith(GMAIL_OAUTH_SCOPES, " ")>>,
                 <<"access_type", <<"offline">> >>,
                 <<"prompt", <<"consent">> >>,
                 <<"state", user_id>> >>)

\* the text of a user id of the model: its segments joined with "/"
UserIdText(u) == JoinWith([i \in 1..Len(u) |-> <<u[i]>>], "/")

\* the text of a redirect_uri of the model
RedirectUriText(redirect_uri) ==
    IF redirect_uri = "https://app.example/callback"
    THEN <<"https", ":", "/", "/", "app.example", "/", "callback">>
    ELSE <<redirect_uri>>

\* POST /v1/oauth/authorize (api/v1/multi_tenant.py:14-34) with
\* generate_oauth_url (multi_tenant_service.py:69-94): the URL carries
\* redirect_uri and state = user_id; the identity provider is asked with
\* that redirect_uri each time the user follows the URL
InitiateOAuthFlow(u, key, redirect_uri) ==
    /\ Arrives
    /\ IF verify_api_key(key)
       THEN /\ flows' = [flows EXCEPT ![u] = redirect_uri]
            /\ last' = Answered([Request("authorize", u, key) EXCEPT
                                    !.steps = <<"service", "url">>,
                                    !.flow_redirect_uri = redirect_uri,
                                    !.redirect_text = RedirectUriText(redirect_uri),
                                    !.url = generate_oauth_url(
                                                UserIdText(u),
                                                RedirectUriText(redirect_uri))])
       ELSE /\ last' \in Rejected("authorize", u, key)
            /\ UNCHANGED flows
    /\ UNCHANGED <<settings, resolved, available, provider, now, issued, task,
                   service, secrets, profiles>>

\* the redirect_uri of the token exchange (multi_tenant_service.py:120)
ExchangeRedirectUri(redirect_uri) ==
    IF Truthy(redirect_uri) THEN redirect_uri ELSE "postmessage"

\* a callback request past the authentication of its route
Callback(op, u, key, redirect_uri) ==
    [Request(op, u, key) EXCEPT
        !.steps = <<"service", "exchange">>,
        !.flow_redirect_uri = flows[u],
        !.exchange_redirect_uri = ExchangeRedirectUri(redirect_uri)]

\* the token endpoint takes a code it gave out for an authorization URL of
\* this client, presented with the redirect_uri of that URL.  The code is
\* bound to the client and the redirect_uri; state is not part of it: whoever
\* follows an issued URL can hand the code to the callback with any state.
ExchangeAcceptable(u, redirect_uri) ==
    \E v \in Users :
        /\ flows[v] # None
        /\ ExchangeRedirectUri(redirect_uri) = flows[v]

\* mutant: a failed exchange still writes the user's profile
ExchangeFailureWritesProfile(op, u, key, redirect_uri) ==
    /\ last' = Failed(Callback(op, u, key, redirect_uri), 400, "HTTPError")
    /\ profiles' = [profiles EXCEPT ![u] = CreatedProfile(@, << >>)]
    /\ UNCHANGED <<secrets, issued>>

\* the token endpoint rejects the code or the POST raises
\* (multi_tenant_service.py:125-126); the handler answers 400
CallbackExchangeFails(op, u, key, redirect_uri) ==
    /\ last' = Failed(Callback(op, u, key, redirect_uri), 400, "HTTPError")
    /\ UNCHANGED <<secrets, profiles, issued>>

\* users().getProfile raises after the exchange (multi_tenant_service.py:138-140)
CallbackProfileLookupFails(op, u, key, redirect_uri) ==
    /\ ExchangeAcceptable(u, redirect_uri)
    /\ issued < MaxExchanges
    /\ issued' = issued + 1
    /\ last' = Failed([Callback(op, u, key, redirect_uri) EXCEPT
                          !.steps = @ \o <<"identity">>,
                          !.exchanged = TRUE],
                      400, "HttpError")
    /\ UNCHANGED <<secrets, profiles>>

\* the secrets manager refuses the write; create_or_update_secret re-raises
\* (gcp_secrets.py:122-124, multi_tenant_service.py:151)
CallbackStoreFails(op, u, key, redirect_uri) ==
    /\ ExchangeAcceptable(u, redirect_uri)
    /\ issued < MaxExchanges
    /\ "store_user_credentials" \in ManagerAttrs(service.secrets_manager)
    /\ issued' = issued + 1
    /\ last' = Failed([Callback(op, u, key, redirect_uri) EXCEPT
                          !.steps = @ \o <<"identity", "store">>,
                          !.exchanged = TRUE],
                      400, "store failed")
    /\ UNCHANGED <<secrets, profiles>>

\* process_oauth_callback runs to its end (multi_tenant_service.py:113-179)
CallbackCompletes(op, u, key, redirect_uri) ==
    /\ ExchangeAcceptable(u, redirect_uri)
    /\ issued < MaxExchanges
    /\ issued' = issued + 1
    /\ \E with_refresh_token \in BOOLEAN, expires_in \in ExchangeExpiresIn :
          LET rt == IF with_refresh_token THEN issued + 1 ELSE 0
              secret_data ==
                  [exists |-> TRUE,
                   refresh_token |-> rt,
                   access_token |-> issued + 1,
                   email_address |-> <<"mail-of">> \o u,
                   expires_at |->
                       now + (IF expires_in = 0 THEN DefaultExpiresIn ELSE expires_in)]
          IN  /\ secrets' = _store_user_secret(service.secrets_manager, secrets,
                                               SecretName(u), secret_data)
              /\ profiles' =
                    IF service.db
                    THEN [profiles EXCEPT ![u] = CreatedProfile(@, <<"mail-of">> \o u)]
                    ELSE profiles
              /\ last' = Answered([Callback(op, u, key, redirect_uri) EXCEPT
                                      !.steps = @ \o <<"identity", "store", "profile">>,
                                      !.exchanged = TRUE,
                                      !.response_refresh_token = rt,
                                      !.secret_data = secret_data])

\* process_oauth_callback (multi_tenant_service.py:96-179) under the handler
\* of either callback route
ProcessOAuthCallback(op, u, key, redirect_uri) ==
    /\ Arrives
    /\ \/ CallbackExchangeFails(op, u, key, redirect_uri)
       \/ CallbackProfileLookupFails(op, u, key, redirect_uri)
       \/ CallbackStoreFails(op, u, key, redirect_uri)
       \/ CallbackCompletes(op, u, key, redirect_uri)
    /\ UNCHANGED <<settings, resolved, available, provider, now, task, service, flows>>

\* GET /v1/oauth/callback (api/v1/multi_tenant.py:36-60): no dependency on
\* verify_api_key; the request may carry any Authorization header or none
HandleOAuthCallback(u, key, redirect_uri) ==
    ProcessOAuthCallback("callback_get", u, key, redirect_uri)

\* POST /v1/oauth/callback (api/v1/multi_tenant.py:62-87)
HandleOAuthCallbackPost(u, key, redirect_uri) ==
    IF verify_api_key(key)
    THEN ProcessOAuthCallback("callback_post", u, key, redirect_uri)
    ELSE /\ Arrives
         /\ last' \in Rejected("callback_post", u, key)
         /\ UNCHANGED <<settings, resolved, available, provider, now, issued,
                        task, service, secrets, profiles, flows>>

\* schemas/requests.py:51-59
MultiTenantEmailRequestFields ==
    {"to", "subject", "body", "body_type", "cc", "bcc", "attachments"}

\* the attributes of the request log_email_transaction reads, in order
\* (multi_tenant_service.py:396-405)
LogEmailReads ==
    <<"from_email", "to_emails", "cc_emails", "bcc_emails", "subject", "body",
      "html_body", "attachments">>

\* schemas/responses.py:7: the values EmailResponse.status admits
EmailResponseStatuses == {"success", "pending", "failed"}

\* the outcomes of users().messages().send(...).execute()
\* (multi_tenant_service.py:292-296): the message is accepted, the API
\* answers an error, or the refresh the client library makes for an expired
\* access token is rejected
GmailSendOutcomes == {"accepted", "HttpError", "RefreshError"}

\* log_email_transaction (multi_tenant_service.py:381-419): whether it
\* raises, how many entries it writes and whether it counts the email
log_email_transaction(fields, status) ==
    IF \E i \in 1..Len(LogEmailReads) : LogEmailReads[i] \notin fields
    THEN [raised |-> TRUE, written |-> 0, counted |-> FALSE]
    ELSE [raised |-> FALSE, written |-> 1, counted |-> (status = "sent")]

\* the try/except of send_user_email (multi_tenant_service.py:289-326): the
\* status of the EmailResponse that gets constructed
SendResultStatus(gmail) ==
    IF gmail = "accepted" /\ "sent" \in EmailResponseStatuses
    THEN "sent"
    ELSE "failed"

\* update_user_stats(user_id, 1) (firestore_service.py:111-166)
CountEmail(docs, u) ==
    IF service.db /\ docs[u].exists
    THEN [docs EXCEPT ![u].total_emails_sent = @ + 1]
    ELSE docs

\* Credentials(token=..., refresh_token=..., token_uri=..., client_id=...,
\* client_secret=...) (multi_tenant_service.py:248-254): no expiry is passed,
\* so the object's expiry is None (0 here)
UserCredentials(secret_data) ==
    [token |-> secret_data.access_token,
     refresh_token |-> secret_data.refresh_token,
     expiry |-> 0]

\* google.oauth2.credentials.Credentials.expired: False without an expiry
expired(credentials) == credentials.expiry # 0 /\ now >= credentials.expiry

\* get_user_credentials (multi_tenant_service.py:231-264): whether a record
\* was found, whether the refresh ran, the credentials returned and the
\* store afterwards
get_user_credentials(user_id) ==
    LET secret_data == _get_user_secret(service.secrets_manager, secrets,
                                        SecretName(user_id))
        credentials == UserCredentials(secret_data)
    IN  IF ~secret_data.exists
        THEN [found |-> FALSE, refreshed |-> FALSE, credentials |-> credentials,
              store |-> secrets]
        ELSE IF expired(credentials) /\ credentials.refresh_token # 0
        THEN [found |-> TRUE, refreshed |-> TRUE,
              credentials |-> [credentials EXCEPT !.token = issued + 1,
                                                  !.expiry = now + DefaultExpiresIn],
              store |-> _store_user_secret(
                            service.secrets_manager, secrets, SecretName(user_id),
                            [secret_data EXCEPT !.access_token = issued + 1,
                                                !.expires_at = now + DefaultExpiresIn])]
        ELSE [found |-> TRUE, refreshed |-> FALSE, credentials |-> credentials,
              store |-> secrets]

\* POST /v1/users/{user_id}/messages (api/v1/multi_tenant.py:90-108) with
\* send_user_email (multi_tenant_service.py:266-326)
SendUserEmail(u, key, to) ==
    /\ Arrives
    /\ IF ~verify_api_key(key)
       THEN /\ last' \in Rejected("send", u, key)
            /\ UNCHANGED profiles
       ELSE IF ~Validates("MultiTenantEmailRequest", to)
       THEN /\ last' = Invalid("send", u, key, to)
            /\ UNCHANGED profiles
       ELSE LET req == [Request("send", u, key) EXCEPT !.to = to]
                got == get_user_credentials(u)
            IN  IF ~got.found
                THEN /\ last' = Failed([req EXCEPT !.steps = <<"service", "credentials">>],
                                       500, "ValueError")
                     /\ UNCHANGED profiles
                ELSE \E gmail \in GmailSendOutcomes :
                        LET status == SendResultStatus(gmail)
                            inner  == log_email_transaction(MultiTenantEmailRequestFields,
                                                            status)
                            outer  == log_email_transaction(MultiTenantEmailRequestFields,
                                                            status)
                            sent   == [req EXCEPT
                                          !.steps = <<"service", "credentials">>
                                                    \o (IF got.refreshed
                                                        THEN <<"refresh", "store">>
                                                        ELSE << >>)
                                                    \o <<"send", "result", "log">>,
                                          !.gmail = gmail,
                                          !.sent_token = got.credentials.token,
                                          !.results = 1,
                                          !.status = status,
                                          !.logged = inner.written]
                        IN  IF inner.raised
                            THEN /\ last' = Failed(sent, 500, "AttributeError")
                                 /\ UNCHANGED profiles
                            ELSE /\ last' =
                                       IF outer.raised
                                       THEN Failed([sent EXCEPT !.steps = @ \o <<"log">>],
                                                   500, "AttributeError")
                                       ELSE Answered([sent EXCEPT
                                                !.steps = @ \o <<"log">>,
                                                !.logged = @ + outer.written])
                                 /\ profiles' =
                                       LET once == IF inner.counted
                                                   THEN CountEmail(profiles, u)
                                                   ELSE profiles
                                       IN  IF ~outer.raised /\ outer.counted
                                           THEN CountEmail(once, u) ELSE once
    /\ IF verify_api_key(key) /\ Validates("MultiTenantEmailRequest", to)
       THEN /\ secrets' = get_user_credentials(u).store
            /\ issued' = IF get_user_credentials(u).refreshed THEN issued + 1 ELSE issued
       ELSE UNCHANGED <<secrets, issued>>
    /\ UNCHANGED <<settings, resolved, available, provider, now, task, service, flows>>

\* GET /v1/users/{user_id}/profile (api/v1/multi_tenant.py:110-122)
GetUserProfile(u, key) ==
    /\ Arrives
    /\ last' \in IF verify_api_key(key)
               THEN {Answered([Request("profile", u, key) EXCEPT
                                 !.steps = <<"service", "profile">>])}
               ELSE Rejected("profile", u, key)
    /\ UNCHANGED <<settings, resolved, available, provider, now, issued, task,
                   service, secrets, profiles, flows>>

\* GET /v1/reports/users/{user_id} and GET /v1/reports/summary
\* (api/v1/multi_tenant.py:125-172): they read the email logs
GetUserEmailReport(u, key) ==
    /\ Arrives
    /\ last' \in IF verify_api_key(key)
               THEN {Answered([Request("report", u, key) EXCEPT
                                 !.steps = <<"service", "report">>])}
               ELSE Rejected("report", u, key)
    /\ UNCHANGED <<settings, resolved, available, provider, now, issued, task,
                   service, secrets, profiles, flows>>

\* DELETE /v1/users/{user_id}/gmail (api/v1/multi_tenant.py:174-188) with
\* disconnect_user_gmail (multi_tenant_service.py:537-546), which logs and returns
DisconnectUserGmail(u, key) ==
    /\ Arrives
    /\ last' \in IF verify_api_key(key)
               THEN {Answered([Request("disconnect", u, key) EXCEPT
                                 !.steps = <<"service", "disconnect">>])}
               ELSE Rejected("disconnect", u, key)
    /\ UNCHANGED <<settings, resolved, available, provider, now, issued, task,
                   service, secrets, profiles, flows>>

\* EmailRequest.provider: the values of the Literal (schemas/requests.py:6-9)
ProviderLiteral == {"gmail_api", "gmail", "outlook", "smtp", "auto"}

\* the provider values a client sends; "sendgrid" is outside the Literal
ProviderValues == ProviderLiteral \cup {"sendgrid"}

\* what get_email_service hands to the factory (api/v1/messages.py:17)
ProviderArgument(requested) == IF requested # "auto" THEN requested ELSE None

\* POST /v1/messages (api/v1/messages.py:13-50) with EmailService.send_email
\* (services/email_service.py:14-42): verify_api_key stands before
\* get_email_service in the handler's signature, and get_email_service takes
\* the validated body; an exception of the provider's send becomes a failed
\* result
SendEmail(key, requested, to) ==
    /\ Arrives
    /\ IF ~verify_api_key(key)
       THEN last' \in Rejected("messages", << >>, key)
       ELSE IF ~(requested \in ProviderLiteral /\ Validates("EmailRequest", to))
       THEN last' = [Invalid("messages", << >>, key, to) EXCEPT !.provider = requested]
       ELSE LET made == create_provider(settings, ProviderArgument(requested))
                req  == [NoRequest EXCEPT !.op = "messages", !.key = key,
                                          !.to = to, !.provider = requested,
                                          !.steps = <<"resolve">>]
            IN  IF made.raised
                THEN last' = Failed(req, 500, made.error)
                ELSE \E status \in {"success", "failed"} :
                        last' = Answered([req EXCEPT
                                    !.steps = <<"resolve", "send", "result">>,
                                    !.results = 1,
                                    !.status = status])
    /\ UNCHANGED <<settings, resolved, available, provider, now, issued, task,
                   service, secrets, profiles, flows>>

TenantTick ==
    /\ now + TickStep <= Epoch + MaxTenantTicks * TickStep
    /\ now' = now + TickStep
    /\ UNCHANGED <<settings, resolved, available, provider, issued, calls, task, tenantVars>>

\* the settings the multi-tenant service reads
TenantSettings ==
    {s \in SettingsSpace :
        /\ s.gmail_client_id = "cid" /\ s.gmail_client_secret = "csecret"
        /\ s.gmail_refresh_token = None
        /\ s.smtp_host = None /\ s.smtp_username = None /\ s.smtp_password = None
        /\ s.preferred_email_provider = "gmail_api"
        /\ s.aws_secrets_name # ""
        /\ s.environment = "development" =>
              s.aws_secrets_name = None /\ s.gcp_project_id = None
        /\ s.gcp_project_id # None => s.aws_secrets_name = None}

\* the Firestore client is there when it could be created
\* (firestore_service.py:17-31)
InitTenant ==
    /\ settings \in TenantSettings
    /\ resolved = [p \in RequestedProviders |-> NotCalled]
    /\ available = [called |-> FALSE, list |-> << >>]
    /\ provider = NewProvider("SmtpClient", settings)
    /\ now = Epoch
    /\ issued = 0
    /\ calls = 0
    /\ task = [t \in Tasks |-> IdleTask]
    /\ \E client_ok \in BOOLEAN :
          service = [secrets_manager |-> _init_secrets_manager(settings),
                     db |-> client_ok]
    /\ secrets = << >>
    /\ profiles = [u \in Users |-> NoProfile]
    /\ last = NoRequest
    /\ flows = [u \in Users |-> None]

\* the OAuth flow, the credential store and the sends of the multi-tenant
\* service, used with a valid API key; the identity provider's redirect
\* carries none
NextTenant ==
    \/ \E u \in Users :
          \/ \E redirect_uri \in RedirectUris : InitiateOAuthFlow(u, "right", redirect_uri)
          \/ \E redirect_uri \in CallbackRedirectUris :
                HandleOAuthCallback(u, "missing", redirect_uri)
    \/ \E u \in PathUsers :
          \/ SendUserEmail(u, "right", <<"rcpt@example.com">>)
          \/ DisconnectUserGmail(u, "right")
    \/ TenantTick

SpecTenant == InitTenant /\ [][NextTenant]_vars

\* one user of the popup flow (redirect_uri "postmessage")
ApiUser == <<"u1">>

\* every route of api/v1/messages.py and api/v1/multi_tenant.py, asked with
\* every kind of Authorization header
NextApi ==
    \E key \in ApiKeys :
        \/ InitiateOAuthFlow(ApiUser, key, "postmessage")
        \/ HandleOAuthCallback(ApiUser, key, None)
        \/ HandleOAuthCallbackPost(ApiUser, key, None)
        \/ \E to \in Recipients : SendUserEmail(ApiUser, key, to)
        \/ GetUserProfile(ApiUser, key)
        \/ GetUserEmailReport(ApiUser, key)
        \/ DisconnectUserGmail(ApiUser, key)
        \/ \E requested \in ProviderValues, to \in Recipients :
              SendEmail(key, requested, to)

SpecApi == InitTenant /\ [][NextApi]_vars

\* the tokens of the user ids and of the redirect URIs handed to
\* generate_oauth_url; between them they hold every escaped character
UserIdTokens == {"u42", "/", "&", "+", " "}

RedirectUriTokens == {"cb", ":", "/", "?", "=", "%"}

MaxUserIdLen == 2

MaxRedirectUriLen == 1


\* the texts of at most n tokens
TextsUpTo(tokens, n) == UNION {[1..k -> tokens] : k \in 0..n}

\* the redirect URI "https://x/cb"
ExampleRedirectUri == <<"https", ":", "/", "/", "x", "/", "cb">>

\* the redirect URIs handed to generate_oauth_url
RedirectUriTexts ==
    TextsUpTo(RedirectUriTokens, MaxRedirectUriLen) \cup {ExampleRedirectUri}

\* service.generate_oauth_url(user_id, redirect_uri), called on its own
GenerateOAuthUrl(user_id, redirect_uri) ==
    /\ last.op = "none"
    /\ last' = [NoRequest EXCEPT !.op = "generate_oauth_url",
                                 !.user = user_id,
                                 !.redirect_text = redirect_uri,
                                 !.outcome = "returned",
                                 !.url = generate_oauth_url(user_id, redirect_uri)]
    /\ UNCHANGED <<settings, resolved, available, provider, now, issued, calls,
                   task, service, secrets, profiles, flows>>

NextOAuthUrl ==
    \E user_id \in TextsUpTo(UserIdTokens, MaxUserIdLen),
       redirect_uri \in RedirectUriTexts :
        GenerateOAuthUrl(user_id, redirect_uri)

\* a development service; the URL is generated once in a run
InitOAuthUrl == InitTenant /\ settings.environment = "development"

SpecOAuthUrl == InitOAuthUrl /\ [][NextOAuthUrl]_vars

(***************************************************************************)
(* POST /v1/messages, one request after another: the backend instance of   *)
(* each request and its token cache.  provider holds the instance          *)
(* get_email_service made for the latest request.                          *)
(***************************************************************************)
\* the instance get_email_service hands to EmailService
\* (api/v1/messages.py:17-18, providers/factory.py:33-47)
InstanceForRequest(kind, s) == NewProvider(kind, s)

\* an authenticated, valid POST /v1/messages (api/v1/messages.py:13-50) up to
\* the first await of provider.send: get_email_service resolves the provider
\* and EmailService.send_email calls its send
SendEmailRequest(t, requested) ==
    /\ \A u \in Tasks : task[u].pc \in {"idle", "done"}
    /\ FreeSlot(t)
    /\ calls < MaxCalls
    /\ calls' = calls + 1
    /\ LET made == create_provider(settings, ProviderArgument(requested))
       IN  /\ ~made.raised
           /\ IF made.backend = "SmtpClient"
              THEN /\ SmtpSendOn(t, InstanceForRequest(made.backend, settings))
                   /\ provider' = InstanceForRequest(made.backend, settings)
              ELSE SendOn(t, InstanceForRequest(made.backend, settings), provider)
    /\ UNCHANGED <<settings, resolved, available, now, issued, tenantVars>>

\* a service whose Gmail API backend may be configured; no request yet
InitMessages == InitProvider /\ provider.kind # "SmtpClient"

NextMessages ==
    \/ \E t \in Tasks :
          \/ \E requested \in {"gmail_api", "auto"} : SendEmailRequest(t, requested)
          \/ RefreshAccepted(t) \/ RefreshRejected(t) \/ RefreshException(t)
          \/ SendAnswered(t) \/ SendException(t)
          \/ SmtpDone(t)
    \/ Tick

SpecMessages == InitMessages /\ [][NextMessages]_vars

(***************************************************************************)
(* Token refresh and send of the Gmail API backend                         *)
(***************************************************************************)
\* the hot-path test of gmail_api.py:70 on the cache as the call found it
ValidAtCall(r) == r.cachedToken # 0 /\ r.cachedExp # 0 /\ r.callTime < r.cachedExp

\* a finished send whose cached token was expired or absent and whose
\* refresh the token endpoint accepted
RefreshedSend(r) ==
    /\ r.pc = "done" /\ r.op = "send"
    /\ ~ValidAtCall(r)
    /\ r.refreshStatus = 200

\* C1 as stated: such a send makes exactly one refresh call, then exactly one
\* send call carrying the new token; its status is success and the cached
\* token afterwards is the new token.
C1_Original ==
    \A t \in Tasks :
        LET r == task[t]
        IN  (provider.kind = "GmailAPIProvider" /\ RefreshedSend(r)) =>
                /\ r.nRefresh = 1
                /\ r.nSend = 1 /\ r.sentWith = r.newToken
                /\ r.outcome = "returned" /\ r.status = "success"
                /\ ~r.overlapped => provider._access_token = r.newToken

\* C1 (amended): such a send makes exactly one refresh call and then, unless
\* building the message fails, exactly one send call carrying the new token;
\* it returns success exactly when that send call is answered 200 and failed
\* otherwise; the cached token afterwards is the new token.
C1_RefreshThenSend ==
    \A t \in Tasks :
        LET r == task[t]
        IN  (provider.kind = "GmailAPIProvider" /\ RefreshedSend(r)) =>
                /\ r.nRefresh = 1
                /\ r.newToken # 0
                /\ r.nSend <= 1
                /\ r.nSend = 1 => r.sentWith = r.newToken
                /\ r.nSend = 0 => r.status = "failed" /\ r.error = <<"HeaderParseError">>
                /\ r.outcome = "returned"
                /\ r.status \in {"success", "failed"}
                /\ r.status = "success" <=> r.sendStatus = 200
                /\ ~r.overlapped => provider._access_token = r.newToken

\* an expired (not absent) token was replaced by the second token issued, the
\* send call carried it and was answered 200
C1_Witness ==
    \E t \in Tasks :
        /\ provider.kind = "GmailAPIProvider" /\ RefreshedSend(task[t])
        /\ task[t].cachedToken = 1 /\ task[t].newToken = 2
        /\ task[t].sentWith = 2 /\ task[t].status = "success"
        /\ provider._access_token = 2

\* C2: a token returned by _get_valid_access_token has a recorded expiry
\* strictly greater than the time of the call, for every expires_in the token
\* endpoint returns.
C2_ReturnedTokenNotExpired ==
    \A t \in Tasks :
        LET r == task[t]
        IN  (r.pc \in {"sending", "done"} /\ r.token # 0 /\ Truthy(provider.refresh_token))
                => r.tokenExp > r.callTime

\* C3: a _get_valid_access_token call made while now < expires_at returns the
\* cached token, makes no call to the token endpoint and leaves the cached
\* token and expiry as they were; so repeated calls return the same value.
C3_ValidTokenReused ==
    \A t \in Tasks :
        LET r == task[t]
        IN  (r.pc # "idle" /\ ValidAtCall(r)) =>
                /\ r.pc \in {"sending", "done"}
                /\ r.nRefresh = 0
                /\ r.token = r.cachedToken /\ r.tokenExp = r.cachedExp
                /\ ~r.overlapped =>
                      /\ provider._access_token = r.cachedToken
                      /\ provider._token_expires_at = r.cachedExp

\* after one refresh, the second of two further calls again returned token 1
C3_Witness ==
    \E t \in Tasks :
        /\ calls = 3 /\ issued = 1
        /\ task[t].pc = "done" /\ task[t].op = "token" /\ ValidAtCall(task[t])
        /\ task[t].token = 1 /\ provider._access_token = 1

\* C4: on a provider without a refresh token, _get_valid_access_token fails
\* with a not-connected error and makes no call to the token endpoint.
C4_NoRefreshTokenNoNetworkCall ==
    \A t \in Tasks :
        LET r == task[t]
        IN  (provider.kind = "GmailAPIProvider" /\ ~Truthy(provider.refresh_token)
             /\ r.pc # "idle" /\ r.op = "token") =>
                /\ r.nRefresh = 0
                /\ r.pc = "done" /\ r.outcome = "raised"
                /\ r.error = <<"NotConnectedError">>

\* C10: send of every backend never raises; a failure gives status failed
\* with a non-empty error text, holding the upstream status code when the
\* provider answered non-200, and everything else gives status success.
C10_SendNeverRaises ==
    \A t \in Tasks :
        LET r == task[t]
        IN  (r.pc = "done" /\ r.op = "send") =>
                /\ r.outcome = "returned"
                /\ r.status \in {"success", "failed"}
                /\ r.status = "failed" => r.error # << >>
                /\ r.sendStatus \in HttpErrorStatuses =>
                      r.status = "failed" /\ r.sendStatus \in Range(r.error)
                /\ r.refreshStatus \in HttpErrorStatuses =>
                      r.status = "failed" /\ r.refreshStatus \in Range(r.error)

(***************************************************************************)
(* Credential records and the connected flag of the multi-tenant service  *)
(***************************************************************************)
\* the record the service reads back for a user
StoredFor(u) == _get_user_secret(service.secrets_manager, secrets, SecretName(u))

\* the last request was a callback that ran to its end for a user who had a
\* refresh token stored, and whose token response carried none
SecondCallbackWithoutRefreshToken ==
    /\ last.op \in {"callback_get", "callback_post"} /\ last.outcome = "returned"
    /\ last.had.exists /\ last.had.refresh_token # 0
    /\ last.response_refresh_token = 0

\* C5: when process_oauth_callback runs again for a user and the second token
\* response omits refresh_token, the stored record still holds the
\* refresh_token stored by the first call
C5_SecondCallbackKeepsRefreshToken ==
    SecondCallbackWithoutRefreshToken
        => StoredFor(last.user).refresh_token = last.had.refresh_token

\* C6: in every reachable state a user's profile says gmail_connected exactly
\* when the credential store holds a record for that user with a refresh_token
C6_ConnectedIffRefreshTokenStored ==
    \A u \in Users :
        get_user_profile(u).gmail_connected
            <=> (StoredFor(u).exists /\ StoredFor(u).refresh_token # 0)

(***************************************************************************)
(* The multi-tenant send request and its transaction log                   *)
(***************************************************************************)
\* C11: every multi-tenant send request that produces a send result has that
\* result written to the transaction log exactly once, whether the result
\* is success or failed
C11_SendResultLoggedOnce ==
    (last.op = "send" /\ last.results > 0) => last.logged = 1

(***************************************************************************)
(* The order of the steps of one send                                      *)
(***************************************************************************)
\* the positions of a step in a call's record
At(r, name) == {i \in 1..Len(r.steps) : r.steps[i] = name}

\* every step named a is followed, later, by no step named b
NeverBefore(r, b, a) == \A i \in At(r, a), j \in At(r, b) : i < j

\* the token could not be obtained: the refresh was rejected or raised, or
\* the credentials could not be loaded
TokenAcquisitionFailed(r) ==
    /\ r.pc = "done" /\ r.op = "send"
    /\ r.token = 0

RefreshRejectedNow(t) ==
    /\ task[t].pc = "refreshing"
    /\ task'[t].refreshStatus \in HttpErrorStatuses

ExpiredTokenCall(r) == r.pc = "done" /\ r.op = "token" /\ ~ValidAtCall(r)

\* the refresh token never changes, and the cache holds the token of the
\* latest accepted refresh response (tokens are numbered as the responses
\* arrive)
RefreshRaceLeavesLastToken ==
    /\ provider.refresh_token = settings.gmail_refresh_token
    /\ provider._access_token = issued
    /\ issued > 0 => provider._token_expires_at # 0

\* C14: under every interleaving of concurrent _get_valid_access_token calls
\* on a provider whose token is expired, each caller makes its own refresh
\* call (redundant calls are allowed) and every token a caller returns was
\* issued by a successful refresh response, namely its own; a caller whose
\* refresh is rejected or raises returns no token; the refresh token is
\* never changed and the cache holds the token of the latest accepted
\* response (last write wins)
C14_RacingCallersGetIssuedTokens ==
    provider.kind = "GmailAPIProvider" =>
        /\ RefreshRaceLeavesLastToken
        /\ \A t \in Tasks :
              LET r == task[t]
              IN  ExpiredTokenCall(r) =>
                      /\ r.nRefresh = 1
                      /\ IF r.refreshStatus = 200
                         THEN /\ r.outcome = "returned"
                              /\ r.token = r.newToken /\ r.token \in 1..issued
                         ELSE /\ r.outcome = "raised" /\ r.token = 0

\* two callers raced on an empty cache: both refreshes were accepted, this
\* caller got the second token and the cache holds it
C14_Witness ==
    \E t \in Tasks :
        /\ provider.kind = "GmailAPIProvider"
        /\ ExpiredTokenCall(task[t]) /\ task[t].overlapped
        /\ task[t].cachedToken = 0 /\ task[t].token = 2
        /\ issued = 2 /\ provider._access_token = 2

(***************************************************************************)
(* Authentication of the routes                                            *)
(***************************************************************************)
\* the routes that depend on verify_api_key
AuthenticatedOps ==
    {"authorize", "callback_post", "send", "profile", "report", "disconnect", "messages"}

\* C15: GET /v1/oauth/callback is processed whatever credential the request
\* carries, never answered 401 or 403; every send, authorize, profile,
\* report and disconnect route refuses a request with a missing or wrong API
\* key before any provider resolution, send, credential-store access or log
\* write, and changes nothing
C15_OnlyCallbackIsPublic ==
    [][calls' # calls =>
          /\ last'.op = "callback_get" =>
                /\ last'.outcome # "rejected"
                /\ last'.http \notin {401, 403}
                /\ "exchange" \in Range(last'.steps)
          /\ (last'.op \in AuthenticatedOps /\ last'.key # "right") =>
                /\ last'.outcome = "rejected"
                /\ last'.http \in {401, 403}
                /\ last'.steps = << >>
                /\ last'.results = 0 /\ last'.logged = 0 /\ ~last'.exchanged
                /\ UNCHANGED <<secrets, profiles, flows, issued>>
          /\ last'.op \in AuthenticatedOps \cup {"callback_get"}
    ]_vars

\* a send with a wrong key is refused for a user whose credentials the
\* callback route stored
C15_Witness ==
    /\ last.op = "send" /\ last.key = "wrong" /\ last.outcome = "rejected"
    /\ StoredFor(ApiUser).exists

(***************************************************************************)
(* The OAuth callback: redirect_uri, failures, what gets stored            *)
(***************************************************************************)
\* the latest request is a callback, by either route
CallbackRequest == last.op \in {"callback_get", "callback_post"}

\* C16: for every authorization flow started by generate_oauth_url with a
\* redirect_uri, the token exchange made when the callback of that flow
\* arrives sends that same redirect_uri, also when the callback carries only
\* code and state
C16_ExchangeUsesFlowRedirectUri ==
    (CallbackRequest /\ last.flow_redirect_uri # None) =>
        last.exchange_redirect_uri = last.flow_redirect_uri

\* the step of a callback whose token exchange fails
ExchangeFailsNow ==
    /\ calls' # calls
    /\ last'.op \in {"callback_get", "callback_post"}
    /\ last'.outcome # "rejected"
    /\ ~last'.exchanged

\* C17: when the token exchange of process_oauth_callback fails (the token
\* endpoint rejects the code or the call raises), the call fails with that
\* error and neither the credential store nor the user profiles are created
\* or modified
C17_FailedExchangeStoresNothing ==
    [][ExchangeFailsNow =>
          /\ last'.outcome = "raised" /\ last'.http = 400
          /\ last'.error = "HTTPError"
          /\ last'.steps = <<"service", "exchange">>
          /\ UNCHANGED <<secrets, profiles>>
    ]_vars

\* the exchange failed for a user who was connected before: record and
\* profile are as they were
C17_Witness ==
    /\ CallbackRequest /\ last.outcome = "raised" /\ ~last.exchanged
    /\ last.had.exists /\ last.had_profile.exists
    /\ StoredFor(last.user) = last.had
    /\ profiles[last.user] = last.had_profile

\* the latest request is a callback whose exchange succeeded and whose
\* getProfile call failed
IdentityLookupFailed ==
    /\ CallbackRequest /\ last.exchanged
    /\ last.steps = <<"service", "exchange", "identity">>
    /\ last.outcome = "raised"

\* C18: when the token exchange succeeds but the identity lookup that
\* follows fails, process_oauth_callback still stores the tokens obtained
\* for the user, with a null account identity
C18_TokensKeptWithoutIdentity ==
    (IdentityLookupFailed /\ service.secrets_manager = "GCP") =>
        /\ StoredFor(last.user).exists
        /\ StoredFor(last.user).access_token = issued
        /\ StoredFor(last.user).email_address = << >>

\* C19: for every configured secrets backend and every user, the record
\* _get_user_secret returns after _store_user_secret wrote under the same
\* name has the fields that were written
C19_StoreThenGetRoundTrip ==
    (CallbackRequest /\ last.outcome = "returned" /\ service.secrets_manager # None) =>
        StoredFor(last.user) = last.secret_data

\* C20: a request that stores or re-authorizes credentials for one user
\* never changes the record a retrieve returns for a different user, also
\* when a user id contains "/"
C20_OtherUsersRecordUntouched ==
    [][\A v \in Users :
          (calls' # calls /\ last'.user # v) => StoredFor(v)' = StoredFor(v)]_vars

(***************************************************************************)
(* Request validation and the send routes                                  *)
(***************************************************************************)
\* C21: on both send routes a request with an empty "to" list ends at
\* validation: it is answered as invalid and reaches neither provider
\* resolution nor a backend send
C21_EmptyRecipientsStopAtValidation ==
    (last.op \in {"send", "messages"} /\ verify_api_key(last.key) /\ last.to = << >>) =>
        /\ last.outcome = "invalid"
        /\ "resolve" \notin Range(last.steps)
        /\ "send" \notin Range(last.steps)

(***************************************************************************)
(* The authorization URL                                                   *)
(***************************************************************************)
\* the query string of a URL
QueryOf(url) == SubSeq(url, 3, Len(url))

\* the k-th parameter's value as it stands in the query string
RawValue(url, k) ==
    LET pair == SplitAt(QueryOf(url), "&")[k]
    IN  SubSeq(pair, 3, Len(pair))

SendWithExpiredRecord ==
    /\ last.op = "send"
    /\ last.had.exists
    /\ last.had.refresh_token # 0
    /\ last.had.expires_at < last.at
    /\ "send" \in Range(last.steps)

\* C23: a multi-tenant send that finds a record with a refresh_token and an
\* expires_at in the past refreshes before the send call, writes the new
\* access_token and expires_at to the credential store and sends with the
\* new token
C23_ExpiredRecordRefreshedBeforeSend ==
    SendWithExpiredRecord =>
        /\ \E i, j \in 1..Len(last.steps) :
              i < j /\ last.steps[i] = "refresh" /\ last.steps[j] = "send"
        /\ StoredFor(last.user).access_token # last.had.access_token
        /\ StoredFor(last.user).expires_at > last.at
        /\ last.sent_token = StoredFor(last.user).access_token

(***************************************************************************)
(* The token cache across requests of POST /v1/messages                    *)
(***************************************************************************)
\* C24: a send request through POST /v1/messages that arrives while the
\* access token obtained for the request before it is still valid makes no
\* refresh call: it uses the cached token
C24_SecondRequestReusesToken ==
    \A t \in Tasks :
        (task[t].op = "send" /\ task[t].priorToken # 0
             /\ task[t].callTime < task[t].priorExp) =>
            /\ task[t].nRefresh = 0
            /\ task[t].pc = "done" /\ task[t].token # 0 => task[t].token = task[t].priorToken

(***************************************************************************)
(* access_token and expires_at go together                                 *)
(***************************************************************************)
\* every record of the credential store has an access_token and an
\* expires_at, or neither
StoredTokenHasExpiry ==
    \A id \in DOMAIN secrets :
        (secrets[id].access_token = 0) <=> (secrets[id].expires_at = 0)

C26_DisconnectRemovesCredentials ==
    (last.op = "disconnect" /\ last.outcome = "returned") =>
        /\ ~StoredFor(last.user).exists
        /\ ~get_user_profile(last.user).gmail_connected

(***************************************************************************)
(* The state parameter                                                     *)
(***************************************************************************)
\* the latest request is a callback that changed the record or the profile
\* of the user its state names
CallbackChangedUser ==
    /\ CallbackRequest
    /\ last.outcome = "returned"
    /\ \/ StoredFor(last.user) # last.had
       \/ profiles[last.user] # last.had_profile

\* C27: a callback creates or overwrites the credential record and the
\* profile of the user named in its state only if an authorization URL was
\* issued for that user by an authenticated authorize request before
C27_CallbackNeedsFlowOfUser ==
    CallbackChangedUser => last.flow_redirect_uri # None

(***************************************************************************)
(* The result of a multi-tenant send                                       *)
(***************************************************************************)
\* C28: send_user_email for a connected user yields a result with status
\* success exactly when the Gmail API send call succeeded and a failed one
\* only when that call failed, every status being one the result type
\* admits; a user without stored credentials gets the not-connected error
\* before any provider call or log write
C28_SendResultMatchesGmailOutcome ==
    (last.op = "send" /\ last.outcome \in {"returned", "raised"}) =>
        /\ last.gmail = "accepted" => last.results = 1 /\ last.status = "success"
        /\ last.status = "failed" => last.gmail \in GmailSendOutcomes \ {"accepted"}
        /\ last.status \in EmailResponseStatuses \cup {"none"}
        /\ ~last.had.exists =>
              /\ last.error = "ValueError"
              /\ "send" \notin Range(last.steps)
              /\ last.logged = 0

(***************************************************************************)
(* total_emails_sent                                                       *)
(***************************************************************************)
\* the step is a send for u that the Gmail API accepted, u having a profile
SuccessfulSendFor(u) ==
    /\ calls' # calls
    /\ last'.op = "send" /\ last'.user = u
    /\ last'.gmail = "accepted"
    /\ service.db /\ profiles[u].exists

\* C29: a user's total_emails_sent never decreases over sends, callbacks
\* (re-authorization included) and disconnects; each successful send adds
\* exactly 1 to it and nothing else changes it
C29_CounterCountsSuccessfulSends ==
    [][\A u \in Users :
          /\ profiles'[u].total_emails_sent >= profiles[u].total_emails_sent
          /\ profiles'[u].total_emails_sent =
                profiles[u].total_emails_sent + (IF SuccessfulSendFor(u) THEN 1 ELSE 0)
    ]_vars

(***************************************************************************)
(* Provider values of POST /v1/messages                                    *)
(***************************************************************************)
\* C30: for every provider value request validation accepts, provider
\* resolution returns a backend or fails as not configured; the
\* unknown-provider error is raised only for values validation rejects
C30_AcceptedProviderNeverUnknown ==
    (last.op = "messages" /\ last.provider \in ProviderLiteral
         /\ last.outcome \in {"returned", "raised"}) =>
        /\ last.outcome = "raised" => last.error = "SMTP provider not configured"
        /\ last.error # "Unknown provider type"

====
